---- MODULE Spec2Model ----
(***************************************************************************)
(* safe-interval: CreateSafeInterval, CreateSafeIntervalMultiple,          *)
(* CreateSafeTimeout and CreateSafeTimeoutMultiple of src/src/index.ts     *)
(* (lines 264-576), over a model of the runtime's setTimeout/clearTimeout. *)
(*                                                                         *)
(* A native timer is an entry of `timers`; its index is the TimeoutID.     *)
(* A timer fires at most once and causes at most one invocation of the     *)
(* callable, so an invocation is named by the id of the timer behind it;   *)
(* `reg` is the id of the first timer of the registration (the call of an  *)
(* entry point) whose loop armed it.                                       *)
(*                                                                         *)
(* The event loop is single-threaded: every action below is one            *)
(* synchronous turn: a registration call, a call of a returned function, a *)
(* timer callback up to its first await, or the settling of an awaited     *)
(* call together with the continuation behind the await. Caller code that  *)
(* runs between the settling and the continuation sees the state of the    *)
(* flight, where every registration and cancel is already enabled.         *)
(*                                                                         *)
(* index.ts has no result callback, no discard flag and no unified entry   *)
(* point; the section "CreateSafe (unified variant)" models those from the *)
(* design specification (sections 3 and 4.3-4.5), in variables of its own. *)
(***************************************************************************)
EXTENDS Naturals, Sequences, FiniteSets, TLC

\* ---------------------------------------------------------------- bounds
\* Native timers ever armed in one run (registrations and re-arms together),
\* when one entry point is exercised on one callable.
MaxTimers == 5
\* The same, when all four entry points are exercised together.
MaxTimersAll == 3
\* The same, when the singleton entry points are exercised on two callables.
MaxTimersTwo == 3
\* Registrations made, and invocations enqueued, through the unified entry
\* point (CreateSafe) in one run.
MaxSafeTimers == 2
MaxInvocations == 3

\* Callable identities (Map keys, compared by reference) and the argument
\* lists callers pass.
Callables == {"A", "B"}
\* The source text of each callable (what its toString() returns): A and B are
\* two evaluations of one function expression, so two references with one text.
SourceText == [c \in Callables |-> "f"]
Args == {"x", "y"}

VARIABLES
    timers,     \* the runtime's timers, by TimeoutID, with the invocation each caused
    ftcI,       \* FunctionsToClear of CreateSafeInterval: callable -> TimeoutID its Clear closes over (0: no key)
    ftcT,       \* FunctionsToClear of CreateSafeTimeout
    ftq,        \* FunctionsToQueue of CreateSafeTimeout: callable -> [has, q]
    ftl,        \* FunctionsToLoop of CreateSafeTimeout: callable -> "absent" | "false" | "true"
    ClearM,     \* the `Clear` variable of each CreateSafeIntervalMultiple call, by registration id (0: undefined)
    started,    \* ids of the thunks the resolve loop has called, in call order
    enq,        \* ids of the thunks pushed on a FunctionsToQueue queue, in push order
    limit,      \* how many timers this run may arm (fixed by the initial state)
    \* The Schedule Store and runtime of the unified entry point (CreateSafe):
    ntimers,    \* its native timers, by id, with the registration that armed each
    cancel,     \* callable -> id of the timer its cancellation handle stops (0: no handle)
    queue,      \* callable -> [has, q]: the queue key and the queued invocation ids
    loopActive, \* callable -> BOOLEAN
    callback,   \* callable -> the registered result callback ("none": no callback)
    invs,       \* the wrapped invocations ever enqueued, by id
    events      \* calls of callables and of callbacks, in the order they were made

safeVars == <<ntimers, cancel, queue, loopActive, callback, invs, events>>
vars == <<timers, ftcI, ftcT, ftq, ftl, ClearM, started, enq, limit, safeVars>>

Ids == 1..Len(timers)
NoQueue == [has |-> FALSE, q |-> <<>>]

\* ------------------------------------------------------- runtime timers
\* setTimeout: a new armed timer; its id is the next index.
NewTimer(prim, c, a, reg) ==
    [prim |-> prim, callable |-> c, args |-> a, reg |-> reg,
     status |-> "armed", inv |-> "none"]

setTimeout(ts, prim, c, a, reg) == Append(ts, NewTimer(prim, c, a, reg))

\* clearTimeout(id): an armed timer is cleared; a fired or cleared one is left alone.
clearTimeout(ts, id) ==
    IF id \in 1..Len(ts) /\ ts[id].status = "armed"
    THEN [ts EXCEPT ![id].status = "cleared"]
    ELSE ts

\* -------------------------------------------------------------- helpers
destroyTimers_NoClear(ts, ftc, c) == ts

\* A destroy that looks for an armed timer of the callable instead of calling
\* the stored Clear.
destroyTimers_AnyArmed(ts, ftc, c) ==
    LET A == {i \in 1..Len(ts) : ts[i].callable = c /\ ts[i].status = "armed"}
    IN IF A = {} THEN ts ELSE clearTimeout(ts, CHOOSE i \in A : \A j \in A : i <= j)

\* destroy(callable, ftc): call the stored Clear, delete the key.
destroyTimers(ts, ftc, c) == IF ftc[c] # 0 THEN clearTimeout(ts, ftc[c]) ELSE ts
\* A destroy that calls Clear and keeps the key.
destroyMap_Keep(ftc, c) == ftc

destroyMap_All(ftc, c) == [d \in DOMAIN ftc |-> 0]

destroyMap(ftc, c) == [ftc EXCEPT ![c] = 0]

\* A setQueue that installs a new queue on every registration.
setQueue_Reset(q, c) == [q EXCEPT ![c] = [has |-> TRUE, q |-> <<>>]]

setQueue(q, c) == IF q[c].has THEN q ELSE [q EXCEPT ![c] = [has |-> TRUE, q |-> <<>>]]
\* A setLoop that sets the flag to false on every registration.
setLoop_Reset(l, c) == [l EXCEPT ![c] = "false"]

setLoop(l, c) == IF l[c] = "absent" THEN [l EXCEPT ![c] = "false"] ELSE l

IsReg(r, prim) == r \in Ids /\ timers[r].reg = r /\ timers[r].prim = prim

Init0 ==
    /\ timers = <<>>
    /\ ftcI = [c \in Callables |-> 0]
    /\ ftcT = [c \in Callables |-> 0]
    /\ ftq = [c \in Callables |-> NoQueue]
    /\ ftl = [c \in Callables |-> "absent"]
    /\ ClearM = <<>>
    /\ started = <<>>
    /\ enq = <<>>
    /\ ntimers = <<>>
    /\ cancel = [c \in Callables |-> 0]
    /\ queue = [c \in Callables |-> NoQueue]
    /\ loopActive = [c \in Callables |-> FALSE]
    /\ callback = [c \in Callables |-> "none"]
    /\ invs = <<>>
    /\ events = <<>>

Room == Len(timers) < limit

\* ---------------------------------------------------- CreateSafeInterval
\* registerCallable: destroy the previous timer, then loop() arms a timer and
\* stores a Clear for it.
CreateSafeInterval(c, a) ==
    /\ Room
    /\ LET n == Len(timers) + 1 IN
       /\ timers' = setTimeout(destroyTimers(timers, ftcI, c), "I", c, a, n)
       /\ ftcI' = [ftcI EXCEPT ![c] = n]
    /\ UNCHANGED <<ftcT, ftq, ftl, ClearM, started, enq, limit, safeVars>>

IntervalCallback_Rearm(ts, t) ==
    Append([ts EXCEPT ![t].status = "fired", ![t].inv = "running"],
           NewTimer("I", ts[t].callable, ts[t].args, ts[t].reg))

\* What the interval's timer callback does to the timers before its await:
\* the callable is called, and no timer is armed.
IntervalCallback(ts, t) == [ts EXCEPT ![t].status = "fired", ![t].inv = "running"]

\* The timer callback up to its await.
FireInterval(t) ==
    /\ t \in Ids
    /\ timers[t].prim = "I"
    /\ timers[t].status = "armed"
    /\ timers' = IntervalCallback(timers, t)
    /\ UNCHANGED <<ftcI, ftcT, ftq, ftl, ClearM, started, enq, limit, safeVars>>

\* Does the continuation of the interval callback call loop() again?
IntervalRepeats(c) == ftcI[c] # 0

\* The callable settled: the callback's continuation repeats the loop if the
\* callable is still a key of FunctionsToClear.
SettleInterval(t) ==
    /\ t \in Ids
    /\ timers[t].prim = "I"
    /\ timers[t].inv = "running"
    /\ LET c == timers[t].callable
           done == [timers EXCEPT ![t].inv = "settled"]
           n == Len(timers) + 1
       IN IF IntervalRepeats(c)
          THEN /\ Room
               /\ timers' = setTimeout(done, "I", c, timers[t].args, timers[t].reg)
               /\ ftcI' = [ftcI EXCEPT ![c] = n]
          ELSE /\ timers' = done
               /\ ftcI' = ftcI
    /\ UNCHANGED <<ftcT, ftq, ftl, ClearM, started, enq, limit, safeVars>>

\* The callable threw, or the promise it returned was rejected: the await in
\* the timer callback throws, and the rest of the callback is skipped.
RejectInterval(t) ==
    /\ t \in Ids
    /\ timers[t].prim = "I"
    /\ timers[t].inv = "running"
    /\ timers' = [timers EXCEPT ![t].inv = "threw"]
    /\ UNCHANGED <<ftcI, ftcT, ftq, ftl, ClearM, started, enq, limit, safeVars>>

\* A cancel function that clears the callable's timers of both stores.
CancelInterval_BothStores(r) ==
    /\ IsReg(r, "I")
    /\ LET c == timers[r].callable IN
       /\ timers' = destroyTimers(destroyTimers(timers, ftcI, c), ftcT, c)
       /\ ftcI' = destroyMap(ftcI, c)
       /\ ftcT' = destroyMap(ftcT, c)
    /\ UNCHANGED <<ftq, ftl, ClearM, started, enq, limit, safeVars>>

\* The function CreateSafeInterval returned for registration r.
CancelInterval(r) ==
    /\ IsReg(r, "I")
    /\ LET c == timers[r].callable IN
       /\ timers' = destroyTimers(timers, ftcI, c)
       /\ ftcI' = destroyMap(ftcI, c)
    /\ UNCHANGED <<ftcT, ftq, ftl, ClearM, started, enq, limit, safeVars>>

\* ----------------------------------------------------- CreateSafeTimeout
\* The part of the state the resolve loop reads and writes.
LoopState(ts, q, l, st) == [timers |-> ts, ftq |-> q, ftl |-> l, started |-> st]

\* A loop that, on an empty queue, resets the flag and keeps both keys.
loop_KeepsKeys(c, S) ==
    IF S.ftq[c].has /\ Len(S.ftq[c].q) > 0
    THEN LET h == Head(S.ftq[c].q) IN
         [S EXCEPT !.ftq[c].q = Tail(S.ftq[c].q),
                   !.timers[h].inv = "running",
                   !.started = Append(S.started, h)]
    ELSE [S EXCEPT !.ftl[c] = "false"]

\* A loop that, on an empty queue, deletes the flag key and keeps the queue key.
loop_KeepsQueueKey(c, S) ==
    IF S.ftq[c].has /\ Len(S.ftq[c].q) > 0
    THEN LET h == Head(S.ftq[c].q) IN
         [S EXCEPT !.ftq[c].q = Tail(S.ftq[c].q),
                   !.timers[h].inv = "running",
                   !.started = Append(S.started, h)]
    ELSE [S EXCEPT !.ftl[c] = "absent"]

\* One run of loop(), up to its await or to its end: with a non-empty queue the
\* head thunk is shifted off and called; otherwise both keys are deleted.
loop(c, S) ==
    IF S.ftq[c].has /\ Len(S.ftq[c].q) > 0
    THEN LET h == Head(S.ftq[c].q) IN
         [S EXCEPT !.ftq[c].q = Tail(S.ftq[c].q),
                   !.timers[h].inv = "running",
                   !.started = Append(S.started, h)]
    ELSE [S EXCEPT !.ftl[c] = "absent", !.ftq[c] = NoQueue]

LoopMayStart_NoFlagTest(l, c) == l[c] # "absent"

\* A guard that also waits for the resolve loops of the other callables.
LoopMayStart_OneLoopAtATime(l, c) ==
    l[c] = "false" /\ \A d \in Callables : l[d] # "true"

\* The guard of startResolveLoopIfNeeded: the key exists and the flag is false.
LoopMayStart(l, c) == l[c] = "false"

startResolveLoopIfNeeded(c, S) ==
    IF LoopMayStart(S.ftl, c)
    THEN loop(c, [S EXCEPT !.ftl[c] = "true"])
    ELSE S

\* registerCallable: destroy, setQueue, setLoop, startNewSafeTimeout.
CreateSafeTimeout(c, a) ==
    /\ Room
    /\ LET n == Len(timers) + 1 IN
       /\ timers' = setTimeout(destroyTimers(timers, ftcT, c), "T", c, a, n)
       /\ ftcT' = [ftcT EXCEPT ![c] = n]
    /\ ftq' = setQueue(ftq, c)
    /\ ftl' = setLoop(ftl, c)
    /\ UNCHANGED <<ftcI, ClearM, started, enq, limit, safeVars>>

\* A timer callback that pushes without testing for the queue key.
TimeoutPushes_Always(c) == TRUE

\* Does the timer callback push its thunk?
TimeoutPushes(c) == ftq[c].has

\* The timer callback: push the thunk if the queue key exists, then try to
\* start the resolve loop.
FireTimeout(t) ==
    /\ t \in Ids
    /\ timers[t].prim = "T"
    /\ timers[t].status = "armed"
    /\ LET c == timers[t].callable
           fired == [timers EXCEPT ![t].status = "fired"]
       IN IF TimeoutPushes(c)
          THEN LET S == startResolveLoopIfNeeded(c,
                            LoopState([fired EXCEPT ![t].inv = "queued"],
                                      [ftq EXCEPT ![c].q = Append(@, t)],
                                      ftl, started))
               IN /\ timers' = S.timers
                  /\ ftq' = S.ftq
                  /\ ftl' = S.ftl
                  /\ started' = S.started
                  /\ enq' = Append(enq, t)
          ELSE /\ timers' = fired
               /\ UNCHANGED <<ftq, ftl, started, enq>>
    /\ UNCHANGED <<ftcI, ftcT, ClearM, limit, safeVars>>

\* A loop that does not call itself again after the await.
SettleTimeout_NoLoop(t) ==
    /\ t \in Ids
    /\ timers[t].prim = "T"
    /\ timers[t].inv = "running"
    /\ timers' = [timers EXCEPT ![t].inv = "settled"]
    /\ UNCHANGED <<ftcI, ftcT, ftq, ftl, ClearM, started, enq, limit, safeVars>>

\* The thunk awaited by the resolve loop settled: loop() runs again.
SettleTimeout(t) ==
    /\ t \in Ids
    /\ timers[t].prim = "T"
    /\ timers[t].inv = "running"
    /\ LET c == timers[t].callable
           S == loop(c, LoopState([timers EXCEPT ![t].inv = "settled"],
                                  ftq, ftl, started))
       IN /\ timers' = S.timers
          /\ ftq' = S.ftq
          /\ ftl' = S.ftl
          /\ started' = S.started
    /\ UNCHANGED <<ftcI, ftcT, ClearM, enq, limit, safeVars>>

\* The thunk awaited by the resolve loop was rejected: the await throws inside
\* loop(), whose remaining statement, the call of loop(), is skipped.
RejectTimeout(t) ==
    /\ t \in Ids
    /\ timers[t].prim = "T"
    /\ timers[t].inv = "running"
    /\ timers' = [timers EXCEPT ![t].inv = "threw"]
    /\ UNCHANGED <<ftcI, ftcT, ftq, ftl, ClearM, started, enq, limit, safeVars>>

\* A returned function that also deletes the queue of the callable.
CancelTimeout_DeletesQueue(r) ==
    /\ IsReg(r, "T")
    /\ LET c == timers[r].callable IN
       /\ timers' = destroyTimers(timers, ftcT, c)
       /\ ftcT' = destroyMap(ftcT, c)
       /\ ftq' = [ftq EXCEPT ![c] = NoQueue]
    /\ UNCHANGED <<ftcI, ftl, ClearM, started, enq, limit, safeVars>>

\* The function CreateSafeTimeout returned for registration r.
CancelTimeout(r) ==
    /\ IsReg(r, "T")
    /\ LET c == timers[r].callable IN
       /\ timers' = destroyTimers(timers, ftcT, c)
       /\ ftcT' = destroyMap(ftcT, c)
    /\ UNCHANGED <<ftcI, ftq, ftl, ClearM, started, enq, limit, safeVars>>

\* -------------------------------------------- CreateSafeIntervalMultiple
\* Each call has its own `Clear`; the registration id names the call.
CreateSafeIntervalMultiple(c, a) ==
    /\ Room
    /\ LET n == Len(timers) + 1 IN
       /\ timers' = setTimeout(timers, "IM", c, a, n)
       /\ ClearM' = (n :> n) @@ ClearM
    /\ UNCHANGED <<ftcI, ftcT, ftq, ftl, started, enq, limit, safeVars>>

\* A callback that arms the next timer before its await (a plain interval).
FireIntervalMultiple_Rearm(t) ==
    /\ t \in Ids
    /\ timers[t].prim = "IM"
    /\ timers[t].status = "armed"
    /\ Room
    /\ timers' = setTimeout([timers EXCEPT ![t].status = "fired", ![t].inv = "running"],
                            "IM", timers[t].callable, timers[t].args, timers[t].reg)
    /\ UNCHANGED <<ftcI, ftcT, ftq, ftl, ClearM, started, enq, limit, safeVars>>

\* The timer callback up to its await: the callable is called.
FireIntervalMultiple(t) ==
    /\ t \in Ids
    /\ timers[t].prim = "IM"
    /\ timers[t].status = "armed"
    /\ timers' = [timers EXCEPT ![t].status = "fired", ![t].inv = "running"]
    /\ UNCHANGED <<ftcI, ftcT, ftq, ftl, ClearM, started, enq, limit, safeVars>>

\* The callable settled: repeat the loop if Clear is still set.
SettleIntervalMultiple(t) ==
    /\ t \in Ids
    /\ timers[t].prim = "IM"
    /\ timers[t].inv = "running"
    /\ LET r == timers[t].reg
           done == [timers EXCEPT ![t].inv = "settled"]
           n == Len(timers) + 1
       IN IF ClearM[r] # 0
          THEN /\ Room
               /\ timers' = setTimeout(done, "IM", timers[t].callable, timers[t].args, r)
               /\ ClearM' = [ClearM EXCEPT ![r] = n]
          ELSE /\ timers' = done
               /\ ClearM' = ClearM
    /\ UNCHANGED <<ftcI, ftcT, ftq, ftl, started, enq, limit, safeVars>>

MultipleClears_Shared(r) ==
    {ClearM[m] : m \in {k \in DOMAIN ClearM :
                          ClearM[k] # 0 /\ timers[k].callable = timers[r].callable}}

\* The timers the returned function of call r clears: the one its Clear holds.
MultipleClears(r) == IF ClearM[r] # 0 THEN {ClearM[r]} ELSE {}

\* The function CreateSafeIntervalMultiple returned for call r.
CancelIntervalMultiple(r) ==
    /\ IsReg(r, "IM")
    /\ timers' = [i \in Ids |->
                    IF i \in MultipleClears(r) THEN clearTimeout(timers, i)[i] ELSE timers[i]]
    /\ ClearM' = [ClearM EXCEPT ![r] = 0]
    /\ UNCHANGED <<ftcI, ftcT, ftq, ftl, started, enq, limit, safeVars>>

\* --------------------------------------------- CreateSafeTimeoutMultiple
\* A bare setTimeout(callable, timeout, ...callableArgs).
CreateSafeTimeoutMultiple(c, a) ==
    /\ Room
    /\ timers' = setTimeout(timers, "TM", c, a, Len(timers) + 1)
    /\ UNCHANGED <<ftcI, ftcT, ftq, ftl, ClearM, started, enq, limit, safeVars>>

\* The runtime calls the callable itself.
FireTimeoutMultiple(t) ==
    /\ t \in Ids
    /\ timers[t].prim = "TM"
    /\ timers[t].status = "armed"
    /\ timers' = [timers EXCEPT ![t].status = "fired", ![t].inv = "running"]
    /\ UNCHANGED <<ftcI, ftcT, ftq, ftl, ClearM, started, enq, limit, safeVars>>

SettleTimeoutMultiple(t) ==
    /\ t \in Ids
    /\ timers[t].prim = "TM"
    /\ timers[t].inv = "running"
    /\ timers' = [timers EXCEPT ![t].inv = "settled"]
    /\ UNCHANGED <<ftcI, ftcT, ftq, ftl, ClearM, started, enq, limit, safeVars>>

\* The function CreateSafeTimeoutMultiple returned for call r: clearTimeout(Timeout).
CancelTimeoutMultiple(r) ==
    /\ IsReg(r, "TM")
    /\ timers' = clearTimeout(timers, r)
    /\ UNCHANGED <<ftcI, ftcT, ftq, ftl, ClearM, started, enq, limit, safeVars>>

\* ------------------------------------------ CreateSafe (unified variant)
\* The entry point with a result callback and a discard flag: its Schedule
\* Store, Scheduler and Resolve Loop, for singleton mode.
Callbacks == {"cb1", "cb2"}
\* What an invocation settles with: a value, or no value when the callable
\* caught its own error and returned nothing.
Values == {"v", "undefined"}

SIds == 1..Len(ntimers)
IIds == 1..Len(invs)

\* The part of the state the Resolve Loop reads and writes.
SafeState(is, q, la, ev) == [invs |-> is, queue |-> q, loopActive |-> la, events |-> ev]

\* Steps 2a and 2d of the Resolve Loop: remove the head thunk and invoke it,
\* or, with nothing queued, set loopActive to false and leave or remove the
\* queue key.
Drain(c, S, keep) ==
    IF S.queue[c].has /\ Len(S.queue[c].q) > 0
    THEN LET h == Head(S.queue[c].q) IN
         [S EXCEPT !.queue[c].q = Tail(S.queue[c].q),
                   !.invs[h].state = "running",
                   !.events = Append(S.events, [kind |-> "call", inv |-> h,
                                                cb |-> "none", value |-> "none"])]
    ELSE [S EXCEPT !.loopActive[c] = FALSE,
                   !.queue[c] = IF keep THEN S.queue[c] ELSE NoQueue]

\* Step 1 of the Resolve Loop: a trigger does nothing while loopActive is true.
TriggerResolveLoop(c, S) ==
    IF S.loopActive[c] THEN S
    ELSE Drain(c, [S EXCEPT !.loopActive[c] = TRUE], TRUE)

\* A thunk that closes over the callback of the registration that enqueued it.
DeliverCallback_AtEnqueue(c, i, v, ev) ==
    IF ntimers[invs[i].timer].cb # "none"
    THEN Append(ev, [kind |-> "callback", inv |-> i,
                     cb |-> ntimers[invs[i].timer].cb, value |-> v])
    ELSE ev

\* A callback that is skipped when the settled value is no value.
DeliverCallback_SkipUndefined(c, i, v, ev) ==
    IF callback[c] # "none" /\ v # "undefined"
    THEN Append(ev, [kind |-> "callback", inv |-> i, cb |-> callback[c], value |-> v])
    ELSE ev

\* Step 2b: the registered callback, if any, is invoked with the settled value.
DeliverCallback(c, i, v, ev) ==
    IF callback[c] # "none"
    THEN Append(ev, [kind |-> "callback", inv |-> i, cb |-> callback[c], value |-> v])
    ELSE ev

\* Queue clearing: every thunk not yet dequeued is discarded.
DropQueued(is, c) ==
    [i \in 1..Len(is) |->
        IF is[i].callable = c /\ is[i].state = "queued"
        THEN [is[i] EXCEPT !.state = "dropped"] ELSE is[i]]

StopTimer(ts, id) ==
    IF id \in 1..Len(ts) /\ ts[id].status = "armed"
    THEN [ts EXCEPT ![id].status = "cleared"]
    ELSE ts

\* Registration (rewrite): cancel the current native timer, clear the queue if
\* the discard flag is set, initialize queue and loop flag if absent, install
\* the callback, arm a fresh timer.
CreateSafe(c, a, isInterval, cb, discard) ==
    /\ Len(ntimers) < MaxSafeTimers
    /\ LET n == Len(ntimers) + 1 IN
       /\ ntimers' = Append(StopTimer(ntimers, cancel[c]),
                            [callable |-> c, args |-> a, isInterval |-> isInterval,
                             cb |-> cb, discard |-> discard, status |-> "armed"])
       /\ cancel' = [cancel EXCEPT ![c] = n]
    /\ queue' = [queue EXCEPT ![c] = IF discard \/ ~queue[c].has
                                     THEN [has |-> TRUE, q |-> <<>>] ELSE @]
    /\ invs' = IF discard THEN DropQueued(invs, c) ELSE invs
    /\ callback' = [callback EXCEPT ![c] = cb]
    /\ UNCHANGED <<loopActive, events>>
    /\ UNCHANGED <<timers, ftcI, ftcT, ftq, ftl, ClearM, started, enq, limit>>

\* A firing of the native timer: a thunk closing over the registration's
\* arguments is appended if the queue key exists, and the Resolve Loop is
\* triggered. A repeating timer stays armed.
FireSafe(t) ==
    /\ t \in SIds
    /\ ntimers[t].status = "armed"
    /\ LET c == ntimers[t].callable
           after == IF ntimers[t].isInterval THEN ntimers
                    ELSE [ntimers EXCEPT ![t].status = "fired"]
       IN IF queue[c].has
          THEN /\ Len(invs) < MaxInvocations
               /\ LET i == Len(invs) + 1
                      S == TriggerResolveLoop(c,
                              SafeState(Append(invs, [callable |-> c, args |-> ntimers[t].args,
                                                      timer |-> t, state |-> "queued",
                                                      value |-> "none"]),
                                        [queue EXCEPT ![c].q = Append(@, i)],
                                        loopActive, events))
                  IN /\ invs' = S.invs
                     /\ queue' = S.queue
                     /\ loopActive' = S.loopActive
                     /\ events' = S.events
               /\ ntimers' = after
          ELSE /\ ~ntimers[t].isInterval
               /\ ntimers' = after
               /\ UNCHANGED <<invs, queue, loopActive, events>>
    /\ UNCHANGED <<cancel, callback>>
    /\ UNCHANGED <<timers, ftcI, ftcT, ftq, ftl, ClearM, started, enq, limit>>

\* The invocation the Resolve Loop awaits settles with value v: the callback
\* is invoked, then the loop considers the next item.
SettleSafe(i, v, keep) ==
    /\ i \in IIds
    /\ invs[i].state = "running"
    /\ LET c == invs[i].callable
           S == Drain(c, SafeState([invs EXCEPT ![i].state = "settled", ![i].value = v],
                                   queue, loopActive,
                                   DeliverCallback(c, i, v, events)),
                      keep)
       IN /\ invs' = S.invs
          /\ queue' = S.queue
          /\ loopActive' = S.loopActive
          /\ events' = S.events
    /\ UNCHANGED <<ntimers, cancel, callback>>
    /\ UNCHANGED <<timers, ftcI, ftcT, ftq, ftl, ClearM, started, enq, limit>>

\* A cancellation function that ignores the discard flag.
CancelSafe_KeepsQueue(r) ==
    /\ r \in SIds
    /\ LET c == ntimers[r].callable IN
       /\ ntimers' = StopTimer(ntimers, cancel[c])
       /\ cancel' = [cancel EXCEPT ![c] = 0]
    /\ UNCHANGED <<queue, invs, loopActive, callback, events>>
    /\ UNCHANGED <<timers, ftcI, ftcT, ftq, ftl, ClearM, started, enq, limit>>

\* The cancellation function returned for the registration that armed timer
\* r: stop the callable's current timer, remove the handle, and with the
\* discard flag delete the queue entry.
CancelSafe(r) ==
    /\ r \in SIds
    /\ LET c == ntimers[r].callable IN
       /\ ntimers' = StopTimer(ntimers, cancel[c])
       /\ cancel' = [cancel EXCEPT ![c] = 0]
       /\ queue' = IF ntimers[r].discard THEN [queue EXCEPT ![c] = NoQueue] ELSE queue
       /\ invs' = IF ntimers[r].discard THEN DropQueued(invs, c) ELSE invs
    /\ UNCHANGED <<loopActive, callback, events>>
    /\ UNCHANGED <<timers, ftcI, ftcT, ftq, ftl, ClearM, started, enq, limit>>

\* -------------------------------------------------------- specifications
\* CreateSafeInterval alone, on one callable.
InitOne == Init0 /\ limit = MaxTimers

NextInterval ==
    \/ \E a \in Args : CreateSafeInterval("A", a)
    \/ \E t \in Ids : FireInterval(t)
    \/ \E t \in Ids : SettleInterval(t)
    \/ \E r \in Ids : CancelInterval(r)

SpecInterval == InitOne /\ [][NextInterval]_vars

\* CreateSafeTimeout alone, on one callable.
NextTimeout ==
    \/ \E a \in Args : CreateSafeTimeout("A", a)
    \/ \E t \in Ids : FireTimeout(t)
    \/ \E t \in Ids : SettleTimeout(t)
    \/ \E r \in Ids : CancelTimeout(r)

SpecTimeout == InitOne /\ [][NextTimeout]_vars

\* The same, with every call the resolve loop awaits settling eventually.
SpecTimeoutLive ==
    InitOne /\ [][NextTimeout]_vars /\ WF_vars(\E t \in Ids : SettleTimeout(t))

\* Both singleton entry points together, on one callable.
InitAll == Init0 /\ limit = MaxTimersAll

NextSingleton ==
    \/ \E a \in Args : CreateSafeInterval("A", a)
    \/ \E t \in Ids : FireInterval(t)
    \/ \E t \in Ids : SettleInterval(t)
    \/ \E r \in Ids : CancelInterval(r)
    \/ \E a \in Args : CreateSafeTimeout("A", a)
    \/ \E t \in Ids : FireTimeout(t)
    \/ \E t \in Ids : SettleTimeout(t)
    \/ \E r \in Ids : CancelTimeout(r)

SpecSingleton == InitAll /\ [][NextSingleton]_vars

\* The same with callables that may throw or reject, every call in flight
\* ending one way or the other.
NextThrows ==
    \/ NextSingleton
    \/ \E t \in Ids : RejectInterval(t)
    \/ \E t \in Ids : RejectTimeout(t)

SpecThrows ==
    /\ InitAll /\ [][NextThrows]_vars
    /\ WF_vars(\E t \in Ids : SettleTimeout(t) \/ RejectTimeout(t))
    /\ WF_vars(\E t \in Ids : SettleInterval(t) \/ RejectInterval(t))

\* All four entry points together, on one callable with one argument list.
Init == InitAll

Next ==
    \/ CreateSafeInterval("A", "x")
    \/ \E t \in Ids : FireInterval(t)
    \/ \E t \in Ids : SettleInterval(t)
    \/ \E r \in Ids : CancelInterval(r)
    \/ CreateSafeTimeout("A", "x")
    \/ \E t \in Ids : FireTimeout(t)
    \/ \E t \in Ids : SettleTimeout(t)
    \/ \E r \in Ids : CancelTimeout(r)
    \/ CreateSafeIntervalMultiple("A", "x")
    \/ \E t \in Ids : FireIntervalMultiple(t)
    \/ \E t \in Ids : SettleIntervalMultiple(t)
    \/ \E r \in Ids : CancelIntervalMultiple(r)
    \/ CreateSafeTimeoutMultiple("A", "x")
    \/ \E t \in Ids : FireTimeoutMultiple(t)
    \/ \E t \in Ids : SettleTimeoutMultiple(t)
    \/ \E r \in Ids : CancelTimeoutMultiple(r)

Spec == Init /\ [][Next]_vars

\* Both singleton entry points, on two callables with one argument list.
InitTwo == Init0 /\ limit = MaxTimersTwo

NextTwo ==
    \/ \E c \in Callables : CreateSafeInterval(c, "x")
    \/ \E t \in Ids : FireInterval(t)
    \/ \E t \in Ids : SettleInterval(t)
    \/ \E r \in Ids : CancelInterval(r)
    \/ \E c \in Callables : CreateSafeTimeout(c, "x")
    \/ \E t \in Ids : FireTimeout(t)
    \/ \E t \in Ids : SettleTimeout(t)
    \/ \E r \in Ids : CancelTimeout(r)

SpecTwo == InitTwo /\ [][NextTwo]_vars

\* CreateSafeTimeout on two callables, A and B, where the calls of B settle
\* and the timers of B fire, while a call of A may stay in flight for ever.
NextStall ==
    \/ \E c \in Callables : CreateSafeTimeout(c, "x")
    \/ \E t \in Ids : FireTimeout(t)
    \/ \E t \in Ids : SettleTimeout(t)
    \/ \E r \in Ids : CancelTimeout(r)

SpecStall ==
    /\ InitTwo
    /\ [][NextStall]_vars
    /\ WF_vars(\E t \in Ids : timers[t].callable = "B" /\ FireTimeout(t))
    /\ WF_vars(\E t \in Ids : timers[t].callable = "B" /\ SettleTimeout(t))

\* The unified entry point with result callbacks (no discard flag), on one
\* callable.
InitSafe == Init0 /\ limit = 0

NextSafeCallback ==
    \/ \E i \in BOOLEAN, cb \in Callbacks \cup {"none"} : CreateSafe("A", "x", i, cb, FALSE)
    \/ \E t \in SIds : FireSafe(t)
    \/ \E i \in IIds, v \in Values, keep \in BOOLEAN : SettleSafe(i, v, keep)
    \/ \E r \in SIds : CancelSafe(r)

SpecSafeCallback == InitSafe /\ [][NextSafeCallback]_vars

\* The unified entry point with and without the discard flag, on one callable.
NextSafeDiscard ==
    \/ \E a \in Args, i, d \in BOOLEAN : CreateSafe("A", a, i, "cb1", d)
    \/ \E t \in SIds : FireSafe(t)
    \/ \E i \in IIds, keep \in BOOLEAN : SettleSafe(i, "v", keep)
    \/ \E r \in SIds : CancelSafe(r)

SpecSafeDiscard == InitSafe /\ [][NextSafeDiscard]_vars
\* ------------------------------------------------------------ vocabulary
Of(prim, c) == {t \in Ids : timers[t].prim = prim /\ timers[t].callable = c}
Armed(prim, c) == {t \in Of(prim, c) : timers[t].status = "armed"}
Running(prim, c) == {t \in Of(prim, c) : timers[t].inv = "running"}
Singleton == {"I", "T"}

\* ------------------------------------------------------------------- C1
\* C1: at most one invocation of a callable registered with CreateSafeInterval
\* is in flight at any time.
C1_OneInFlight ==
    \A c \in Callables : Cardinality(Running("I", c)) <= 1

\* ------------------------------------------------------------------- C2
\* C2: in CreateSafeTimeout the thunks of a callable are called in the order
\* in which they were pushed, and a thunk pushed later is called only after
\* every thunk pushed before it has settled.
C2_TimeoutOrder ==
    /\ Len(started) <= Len(enq)
    /\ started = SubSeq(enq, 1, Len(started))
    /\ \A i, j \in 1..Len(enq) :
          (i < j /\ timers[enq[j]].inv \in {"running", "settled"})
              => timers[enq[i]].inv = "settled"

\* Three firings were pushed while re-registering during earlier invocations;
\* the second runs after the first settled and the third still waits.
C2_Witness ==
    /\ Len(enq) = 3
    /\ Len(started) = 2
    /\ timers[enq[1]].inv = "settled"
    /\ timers[enq[2]].inv = "running"
    /\ timers[enq[3]].inv = "queued"
\* ------------------------------------------------------------------- C3
Regs(prim, c) == {r \in Of(prim, c) : timers[r].reg = r}
\* The latest registration of c through prim (0 when there is none).
LastReg(prim, c) ==
    IF Regs(prim, c) = {} THEN 0
    ELSE CHOOSE r \in Regs(prim, c) : \A q \in Regs(prim, c) : q <= r
NoneFired(prim, c) == \A t \in Of(prim, c) : timers[t].status # "fired"
Invoked(prim, c) == {t \in Of(prim, c) : timers[t].inv # "none"}
Fires(t) == timers[t].status = "armed" /\ timers'[t].status = "fired"
Registers(prim, c) ==
    /\ Len(timers') = Len(timers) + 1
    /\ timers'[Len(timers')].prim = prim
    /\ timers'[Len(timers')].callable = c
    /\ timers'[Len(timers')].reg = Len(timers')

\* C3: while no timer of a callable has fired in singleton mode, each
\* registration leaves exactly one timer armed for it (its own), and the first
\* firing is that of the last registration and produces exactly one invocation,
\* made with the last registration's arguments.
C3_LastRegistrationWins ==
    [][\A p \in Singleton, c \in Callables :
          NoneFired(p, c) =>
             /\ Registers(p, c) => Armed(p, c)' = {Len(timers')}
             /\ \A t \in Of(p, c) :
                   Fires(t) => /\ t = LastReg(p, c)
                               /\ Invoked(p, c)' = {t}
                               /\ timers'[t].inv = "running"
                               /\ timers'[t].args = timers[LastReg(p, c)].args
                               /\ Armed(p, c)' = {}]_vars

\* The callable was registered twice as a timeout (the first timer was cleared
\* unfired) and the second registration's timer fired: one invocation runs.
C3_Witness ==
    /\ Len(timers) >= 2
    /\ timers[1].prim = "T" /\ timers[1].status = "cleared" /\ timers[1].args = "x"
    /\ timers[2].prim = "T" /\ timers[2].status = "fired" /\ timers[2].args = "y"
    /\ timers[2].inv = "running"
    /\ Invoked("T", "A") = {2}

\* ------------------------------------------------------------------- C4
\* C4: in singleton mode at most one native timer is armed per callable and
\* per primitive.
C4_OneArmedTimer ==
    \A p \in Singleton, c \in Callables : Cardinality(Armed(p, c)) <= 1

\* ------------------------------------------------------------------- C5
\* C5: a timer of a singleton callable that fires calls it with the arguments
\* of the callable's latest registration.
C5_NewArgsAfterReRegistration ==
    [][\A p \in Singleton, c \in Callables : \A t \in Of(p, c) :
          Fires(t) => timers[t].args = timers[LastReg(p, c)].args]_vars

\* ------------------------------------------------------------------- C6
\* A call of the function returned for registration r.
CancelOf(r) ==
    \/ CancelInterval(r)
    \/ CancelTimeout(r)
    \/ CancelIntervalMultiple(r)
    \/ CancelTimeoutMultiple(r)

\* C6: when the function returned for a registration is called while a timer
\* of that registration is armed, the timer is cleared, and a cleared timer
\* never fires and causes no invocation.
C6_CancelBeforeFire ==
    [][/\ \A r \in Ids : CancelOf(r) =>
             \A t \in Ids : (timers[t].reg = r /\ timers[t].status = "armed")
                               => timers'[t].status = "cleared"
       /\ \A t \in Ids : timers[t].status = "cleared"
                            => timers'[t].status = "cleared" /\ timers'[t].inv = "none"]_vars

\* ------------------------------------------------------------------- C7
Pending(t) == timers[t].inv \in {"queued", "running"}

\* C7: a cancel call leaves every enqueued or running invocation in place, and
\* while a singleton callable is cancelled and not registered again (it has no
\* key in FunctionsToClear) none of its timers fires.
C7_CancelAfterFire ==
    [][/\ \A r \in Ids : CancelOf(r) =>
             \A t \in Ids : Pending(t) => timers'[t].inv = timers[t].inv
       /\ \A c \in Callables :
             /\ ftcI[c] = 0 => \A t \in Of("I", c) : ~Fires(t)
             /\ ftcT[c] = 0 => \A t \in Of("T", c) : ~Fires(t)]_vars

\* ------------------------------------------------------------------- C8
\* The timers and invocations of the loop started by registration r.
Chain(r) == {t \in Ids : timers[t].reg = r}

C9_FiredTimeoutEnqueues ==
    \A c \in Callables : \A t \in Of("T", c) :
        timers[t].status = "fired" => timers[t].inv # "none"

\* ------------------------------------------------------------------ C10
\* Every timer outside registration r, and every other Multiple call's Clear,
\* is as it was.
OthersUnchanged(r) ==
    /\ \A t \in Ids : timers[t].reg # r => timers'[t] = timers[t]
    /\ \A m \in DOMAIN ClearM : m # r => ClearM'[m] = ClearM[m]
SingletonUnchanged == UNCHANGED <<ftcI, ftcT, ftq, ftl, started, enq>>

\* C10: registering or cancelling a Multiple schedule changes no timer, no
\* invocation and no Clear of any other schedule, and nothing in the stores of
\* the singleton entry points.
C10_MultipleIndependent ==
    [][/\ \A r \in Ids :
             (CancelIntervalMultiple(r) \/ CancelTimeoutMultiple(r))
                 => OthersUnchanged(r) /\ SingletonUnchanged
       /\ (\E c \in Callables, a \in Args :
               CreateSafeIntervalMultiple(c, a) \/ CreateSafeTimeoutMultiple(c, a))
             => OthersUnchanged(Len(timers) + 1) /\ SingletonUnchanged]_vars

\* Two Multiple intervals and a singleton interval of the same callable; the
\* first Multiple one was cancelled, the other two are still armed.
C10_Witness ==
    /\ Len(timers) = 3
    /\ timers[1].prim = "IM" /\ timers[1].status = "cleared" /\ ClearM[1] = 0
    /\ timers[2].prim = "IM" /\ timers[2].status = "armed" /\ ClearM[2] = 2
    /\ timers[3].prim = "I" /\ timers[3].status = "armed" /\ ftcI["A"] = 3
    /\ \A t \in Ids : timers[t].callable = "A"

\* ------------------------------------------------------------------ C11
\* C11: within the schedule of one CreateSafeIntervalMultiple call, at most
\* one invocation is in flight, and a timer of the schedule has caused an
\* invocation only if every earlier invocation of the schedule has settled.
C11_MultipleNoOverlap ==
    \A r \in Ids : IsReg(r, "IM") =>
        /\ Cardinality({t \in Chain(r) : timers[t].inv = "running"}) <= 1
        /\ \A t, u \in Chain(r) :
              (t < u /\ timers[u].inv # "none") => timers[t].inv = "settled"

\* The second invocation of a Multiple interval is in flight after the first
\* one settled, the schedule having been cancelled during the second.
C11_Witness ==
    \E r, u \in Ids :
        /\ IsReg(r, "IM") /\ u \in Chain(r) /\ r < u
        /\ timers[r].inv = "settled"
        /\ timers[u].inv = "running"
        /\ ClearM[r] = 0

\* ------------------------------------------------------------------ C12
\* A registration, re-registration or cancel call made for callable d through
\* a singleton entry point.
OperationOn(d) ==
    \/ \E a \in Args : CreateSafeInterval(d, a) \/ CreateSafeTimeout(d, a)
    \/ \E r \in Ids : timers[r].callable = d /\ (CancelInterval(r) \/ CancelTimeout(r))

\* Nothing of callable c changes: its timers and invocations, its Clear
\* entries, its queue, its loop flag; no timer is armed for it and no thunk is
\* pushed or called.
CallableUnchanged(c) ==
    /\ \A t \in Ids : timers[t].callable = c => timers'[t] = timers[t]
    /\ \A t \in 1..Len(timers') : t \notin Ids => timers'[t].callable # c
    /\ ftcI'[c] = ftcI[c] /\ ftcT'[c] = ftcT[c]
    /\ ftq'[c] = ftq[c] /\ ftl'[c] = ftl[c]
    /\ UNCHANGED <<started, enq>>

\* C12: in singleton mode a registration, re-registration or cancel of one
\* callable changes nothing of any other callable.
C12_CallablesIndependent ==
    [][\A c, d \in Callables : (c # d /\ OperationOn(d)) => CallableUnchanged(c)]_vars

\* A has a timeout invocation in flight (loop flag true, Clear entry kept),
\* while B was registered, re-registered and then cancelled.
C12_Witness ==
    /\ ftl["A"] = "true" /\ Running("T", "A") # {} /\ ftcT["A"] # 0
    /\ \E t, u \in Of("T", "B") \cup Of("I", "B") :
          /\ t < u /\ timers[t].prim = timers[u].prim
          /\ timers[t].status = "cleared" /\ timers[u].status = "cleared"
    /\ ftcI["B"] = 0 /\ ftcT["B"] = 0

\* ------------------------------------------------------------------ C13
\* The schedule the returned function of registration r acts on is cancelled
\* or does not exist: there is no stored Clear for it (singleton: the
\* callable has no key; IntervalMultiple: Clear is undefined), or its only
\* timer is not armed (TimeoutMultiple).
NothingToCancel(r) ==
    LET c == timers[r].callable IN
    CASE timers[r].prim = "I" -> ftcI[c] = 0
      [] timers[r].prim = "T" -> ftcT[c] = 0
      [] timers[r].prim = "IM" -> ClearM[r] = 0
      [] timers[r].prim = "TM" -> timers[r].status # "armed"

\* The timeout the returned function of r acts on has already fired.
TimeoutFired(r) ==
    LET c == timers[r].callable IN
    CASE timers[r].prim = "T" -> ftcT[c] # 0 /\ timers[ftcT[c]].status = "fired"
      [] timers[r].prim = "TM" -> timers[r].status = "fired"
      [] OTHER -> FALSE

\* C13 as stated: the returned function can always be called, a call leaves
\* nothing to cancel, and a call made when there is nothing to cancel or when
\* the timeout has already fired changes nothing at all.
C13_CancelNoOp ==
    /\ [](\A r \in Ids : timers[r].reg = r => ENABLED CancelOf(r))
    /\ [][\A r \in Ids : CancelOf(r) =>
             /\ NothingToCancel(r)'
             /\ (NothingToCancel(r) \/ TimeoutFired(r)) => UNCHANGED vars]_vars

\* C13 amended: the returned function can always be called, a call leaves
\* nothing to cancel, a call made when there is nothing to cancel changes
\* nothing at all (so a second call right after a first one changes nothing),
\* and a call made after the timeout fired changes nothing but the callable's
\* key of FunctionsToClear, which it deletes.
C13_CancelIdempotent ==
    /\ [](\A r \in Ids : timers[r].reg = r => ENABLED CancelOf(r))
    /\ [][\A r \in Ids : CancelOf(r) =>
             /\ NothingToCancel(r)'
             /\ NothingToCancel(r) => UNCHANGED vars
             /\ TimeoutFired(r) =>
                   /\ UNCHANGED <<timers, ftcI, ftq, ftl, ClearM, started, enq, limit, safeVars>>
                   /\ \A d \in Callables :
                         ftcT'[d] = IF timers[r].prim = "T" /\ d = timers[r].callable
                                    THEN 0 ELSE ftcT[d]]_vars

\* The returned function was called for a singleton timeout after its timer
\* fired (the key is gone), for a TimeoutMultiple after its timer fired, and
\* for an IntervalMultiple.
C13_Witness ==
    \E t, u, v \in Ids :
        /\ timers[t].prim = "T" /\ timers[t].status = "fired" /\ ftcT[timers[t].callable] = 0
        /\ timers[u].prim = "TM" /\ timers[u].status = "fired"
        /\ timers[v].prim = "IM" /\ timers[v].status = "cleared" /\ ClearM[v] = 0

\* ------------------------------------------------------------------ C14
\* Positions in `events` of the callback calls made for invocation i, and of
\* the call of invocation i itself.
CallbackEvents(i) == {k \in 1..Len(events) : events[k].kind = "callback" /\ events[k].inv = i}
CallEvents(i) == {k \in 1..Len(events) : events[k].kind = "call" /\ events[k].inv = i}
\* This step settles invocation i.
Settles(i) == invs[i].state = "running" /\ invs'[i].state = "settled"

\* C14: a callback is invoked at most once per invocation, only for a settled
\* one and with its settled value, and before any later invocation of the
\* same callable is called; and when an invocation settles while a callback is
\* registered, that callback is invoked for it exactly once in that step.
C14_CallbackPerInvocation ==
    /\ [](\A i \in IIds :
            /\ Cardinality(CallbackEvents(i)) <= 1
            /\ \A k \in CallbackEvents(i) :
                  /\ invs[i].state = "settled"
                  /\ events[k].value = invs[i].value
                  /\ \A j \in IIds : \A m \in CallEvents(j) :
                        (i < j /\ invs[j].callable = invs[i].callable) => k < m)
    /\ [][\A i \in IIds :
            (Settles(i) /\ callback[invs[i].callable] # "none") =>
                /\ Cardinality(CallbackEvents(i)') = 1
                /\ \A k \in CallbackEvents(i)' :
                      /\ k = Len(events) + 1
                      /\ events'[k].cb = callback[invs[i].callable]
                      /\ events'[k].value = invs'[i].value]_vars

\* Two invocations of an interval were drained with a callback registered:
\* the first settled with no value, the second with a value; each has its
\* callback call, the first one's before the second invocation was called.
C14_Witness ==
    /\ Len(invs) >= 2
    /\ invs[1].state = "settled" /\ invs[1].value = "undefined"
    /\ invs[2].state = "settled" /\ invs[2].value = "v"
    /\ \E k \in CallbackEvents(1), m \in CallEvents(2), n \in CallbackEvents(2) :
          /\ k < m /\ m < n
          /\ events[k].value = "undefined" /\ events[n].value = "v"

\* ------------------------------------------------------------------ C15
\* The callback of the latest registration of callable c ("none" when that
\* registration gave no callback).
LatestCallback(c) ==
    LET R == {t \in SIds : ntimers[t].callable = c}
    IN ntimers[CHOOSE t \in R : \A u \in R : u <= t].cb

\* C15: when an invocation settles, its result goes to the callback of the
\* callable's latest registration made so far, whichever registration
\* enqueued it, and no other callback is ever called for it.
C15_LatestCallbackAtSettle ==
    /\ [][\A i \in IIds : Settles(i) =>
             LET new == LatestCallback(invs[i].callable) IN
             /\ \A k \in CallbackEvents(i)' : events'[k].cb = new
             /\ new # "none" => CallbackEvents(i)' # {}]_vars
    /\ [][\A i \in IIds : invs[i].state = "settled" =>
             CallbackEvents(i)' = CallbackEvents(i)]_vars

\* An invocation enqueued by a registration with callback cb1 settled after
\* the callable was registered again with cb2: cb2 was called for it.
C15_Witness ==
    \E i \in IIds : \E k \in CallbackEvents(i) :
        /\ invs[i].state = "settled"
        /\ ntimers[invs[i].timer].cb = "cb1"
        /\ events[k].cb = "cb2"
        /\ CallbackEvents(i) = {k}

\* ------------------------------------------------------------------ C16
\* A cancel or a re-registration of callable c made with the discard flag.
DiscardingCall(c) ==
    \/ \E r \in SIds : ntimers[r].callable = c /\ ntimers[r].discard /\ CancelSafe(r)
    \/ /\ \E t \in SIds : ntimers[t].callable = c
       /\ \E a \in Args, i \in BOOLEAN, cb \in Callbacks \cup {"none"} :
             CreateSafe(c, a, i, cb, TRUE)

\* C16: a cancel or re-registration made with the discard flag drops every
\* invocation that is enqueued and not yet dequeued and leaves the one in
\* flight running; a dropped invocation stays dropped and is never called.
C16_DiscardDropsQueued ==
    /\ [][\A c \in Callables : DiscardingCall(c) =>
             \A i \in IIds : invs[i].callable = c =>
                /\ invs[i].state = "queued" => invs'[i].state = "dropped"
                /\ invs[i].state # "queued" => invs'[i].state = invs[i].state]_vars
    /\ [][\A i \in IIds : invs[i].state = "dropped" => invs'[i].state = "dropped"]_vars
    /\ [](\A i \in IIds :
            /\ invs[i].state = "dropped" => CallEvents(i) = {}
            /\ invs[i].state = "queued" =>
                  \E k \in 1..Len(queue[invs[i].callable].q) :
                      queue[invs[i].callable].q[k] = i)

\* Three firings of an interval registered with the discard flag were
\* enqueued while the first invocation was in flight; the cancel dropped the
\* second and third, and the first completed: it is the only one ever called.
C16_Witness ==
    /\ Len(invs) = 3
    /\ invs[1].state = "settled"
    /\ invs[2].state = "dropped" /\ invs[3].state = "dropped"
    /\ cancel["A"] = 0
    /\ \A k \in 1..Len(events) : events[k].inv = 1

\* ------------------------------------------------------------------ C17
\* C17: a singleton registration of a callable whose source text equals that
\* of another, already registered callable replaces that callable's schedule:
\* two different callables with the same source text never both have a timer
\* armed, a Clear entry, or a queue, through the same entry point.
C17_SourceTextIsIdentity ==
    \A c, d \in Callables :
        (c # d /\ SourceText[c] = SourceText[d]) =>
            /\ ~(Armed("I", c) # {} /\ Armed("I", d) # {})
            /\ ~(Armed("T", c) # {} /\ Armed("T", d) # {})
            /\ ~(ftcI[c] # 0 /\ ftcI[d] # 0)
            /\ ~(ftcT[c] # 0 /\ ftcT[d] # 0)
            /\ ~(ftq[c].has /\ ftq[d].has)

\* ------------------------------------------------------------------ C18
\* A resolve loop that is draining is suspended at its await, so the loops
\* draining the queue of c are counted by the thunks of c that are in flight.
\* C18: at most one resolve loop drains the queue of a callable at any time,
\* and a timer callback that runs while the loop flag is true only pushes its
\* thunk: it calls nothing and leaves the flag as it is.
C18_SingleResolveLoop ==
    /\ [](\A c \in Callables : Cardinality(Running("T", c)) <= 1)
    /\ [][\A c \in Callables : \A t \in Of("T", c) :
            (Fires(t) /\ ftl[c] = "true") =>
                /\ ftl'[c] = "true"
                /\ started' = started
                /\ Running("T", c)' = Running("T", c)
                /\ timers'[t].inv = "queued"]_vars

\* A timer fired while the resolve loop was awaiting an earlier thunk: its
\* thunk waits in the queue and the loop is still the only one.
C18_Witness ==
    \E t, u \in Of("T", "A") :
        /\ t < u
        /\ Running("T", "A") = {t}
        /\ timers[u].status = "fired" /\ timers[u].inv = "queued"
        /\ ftq["A"].q = <<u>>
        /\ ftl["A"] = "true"

\* ------------------------------------------------------------------ C19
\* C19: a re-registration through CreateSafeTimeout leaves the thunks in the
\* callable's queue and their order, whether its resolve loop is active, and
\* every invocation as they were; the arguments a thunk closes over never
\* change; and a thunk of a later registration is called only when no thunk of
\* an earlier registration is still queued or in flight.
C19_ReRegistrationKeepsQueue ==
    /\ [][\A c \in Callables :
            (Of("T", c) # {} /\ \E a \in Args : CreateSafeTimeout(c, a)) =>
                /\ ftq'[c].q = ftq[c].q
                /\ (ftl'[c] = "true") <=> (ftl[c] = "true")
                /\ \A t \in Ids : timers'[t].inv = timers[t].inv
                /\ started' = started /\ enq' = enq]_vars
    /\ [][\A t \in Ids : timers'[t].args = timers[t].args]_vars
    /\ [](\A c \in Callables : \A t, u \in Of("T", c) :
            (t < u /\ timers[u].inv \in {"running", "settled"})
                => timers[t].inv \notin {"queued", "running"})

\* The callable was registered again, with other arguments, while one thunk
\* was in flight and another one queued: the queue still holds that thunk and
\* the new registration's timer is armed.
C19_Witness ==
    \E t, u, n \in Of("T", "A") :
        /\ t < u /\ u < n
        /\ timers[t].inv = "running"
        /\ timers[u].inv = "queued" /\ ftq["A"].q = <<u>>
        /\ timers[n].status = "armed" /\ ftcT["A"] = n
        /\ timers[n].args # timers[u].args
        /\ ftl["A"] = "true"

\* ------------------------------------------------------------------ C20
\* C20: a call of the function returned by a singleton entry point changes
\* nothing but the callable's key of that entry point's FunctionsToClear,
\* which it deletes, and the timer that key's Clear closes over, which it
\* clears if it is armed: the queues, the loop flags, the calls made so far and
\* every invocation, in flight or not, are as they were.
C20_CancelTouchesOnlyTimer ==
    [][\A r \in Ids : (CancelInterval(r) \/ CancelTimeout(r)) =>
          LET c == timers[r].callable
              h == IF timers[r].prim = "I" THEN ftcI[c] ELSE ftcT[c]
          IN /\ ftq' = ftq /\ ftl' = ftl /\ started' = started /\ enq' = enq
             /\ Len(timers') = Len(timers)
             /\ \A t \in Ids :
                   /\ timers'[t].inv = timers[t].inv
                   /\ t # h => timers'[t] = timers[t]
                   /\ timers'[t].status # timers[t].status =>
                         timers[t].status = "armed" /\ timers'[t].status = "cleared"
             /\ \A d \in Callables :
                   /\ ftcI'[d] = IF timers[r].prim = "I" /\ d = c THEN 0 ELSE ftcI[d]
                   /\ ftcT'[d] = IF timers[r].prim = "T" /\ d = c THEN 0 ELSE ftcT[d]]_vars

\* The returned function of CreateSafeTimeout was called while one thunk of A
\* was in flight and another one queued: both are still there, the loop flag
\* is still true, and only the key of FunctionsToClear is gone.
C20_Witness ==
    \E t, u \in Of("T", "A") :
        /\ t < u
        /\ timers[t].inv = "running"
        /\ timers[u].inv = "queued" /\ ftq["A"].q = <<u>>
        /\ ftl["A"] = "true"
        /\ ftcT["A"] = 0

\* ------------------------------------------------------------------ C21
\* C21: when the calls the resolve loop awaits settle, every thunk pushed on
\* a queue of CreateSafeTimeout is eventually called, whatever is registered
\* or cancelled meanwhile; a thunk is called at most once, and a thunk that was
\* pushed waits in one place of the queue until it is called.
C21_EveryThunkCalledOnce ==
    /\ \A t \in 1..MaxTimers :
          (t \in Ids /\ timers[t].inv = "queued")
              ~> (t \in Ids /\ timers[t].inv \in {"running", "settled"})
    /\ [](\A i, j \in 1..Len(started) : i # j => started[i] # started[j])
    /\ [](\A t \in Ids : timers[t].prim = "T" =>
            LET c == timers[t].callable
                At == {k \in 1..Len(ftq[c].q) : ftq[c].q[k] = t}
            IN Cardinality(At) = IF timers[t].inv = "queued" THEN 1 ELSE 0)
    /\ [][\A t \in Ids :
            /\ timers[t].inv = "queued" => timers'[t].inv \in {"queued", "running"}
            /\ timers[t].inv = "running" => timers'[t].inv \in {"running", "settled"}
            /\ timers[t].inv = "settled" => timers'[t].inv = "settled"]_vars

\* A thunk was pushed while an earlier one was in flight; the callable was
\* then cancelled, and both thunks have been called, in order, and settled.
C21_Witness ==
    \E t, u \in Of("T", "A") :
        /\ t < u
        /\ started = <<t, u>> /\ enq = <<t, u>>
        /\ timers[t].inv = "settled" /\ timers[u].inv = "settled"
        /\ ftcT["A"] = 0
        /\ ~ftq["A"].has

\* ------------------------------------------------------------------ C22
\* FunctionsToClear of a singleton entry point.
Ftc(p) == IF p = "I" THEN ftcI ELSE ftcT

\* C22 as stated: whenever FunctionsToClear holds a key for a callable, a
\* timer of that callable is armed.
C22_HandleOnlyWhileArmed ==
    \A p \in Singleton, c \in Callables : Ftc(p)[c] # 0 => Armed(p, c) # {}

\* C22 amended: the Clear stored for a callable closes over the timer armed
\* last for it, armed or not; the key is set by every registration, deleted by
\* every call of a returned function, and deleted by nothing else.
C22_HandleUntilCancelled ==
    /\ [](\A p \in Singleton, c \in Callables :
            Ftc(p)[c] # 0 => /\ Ftc(p)[c] \in Of(p, c)
                             /\ \A t \in Of(p, c) : t <= Ftc(p)[c])
    /\ [][\A p \in Singleton, c \in Callables :
            /\ Registers(p, c) => Ftc(p)[c]' = Len(timers')
            /\ (\E r \in Of(p, c) : CancelInterval(r) \/ CancelTimeout(r)) => Ftc(p)[c]' = 0
            /\ (Ftc(p)[c] # 0 /\ Ftc(p)[c]' = 0) =>
                  \E r \in Of(p, c) : CancelInterval(r) \/ CancelTimeout(r)]_vars

\* The timer of a timeout has fired and its thunk settled, and an invocation
\* of an interval is in flight with no timer armed: both keys are still there.
C22_Witness ==
    \E t \in Of("T", "A"), u \in Of("I", "A") :
        /\ timers[t].status = "fired" /\ timers[t].inv = "settled" /\ ftcT["A"] = t
        /\ timers[u].inv = "running" /\ ftcI["A"] = u
        /\ Armed("T", "A") = {} /\ Armed("I", "A") = {}

\* ------------------------------------------------------------------ C23
\* Callable c was registered through CreateSafeTimeout and then cancelled (only
\* a returned function deletes the key), and none of its thunks is queued or
\* in flight.
CancelledAndDrained(c) ==
    /\ Of("T", c) # {}
    /\ ftcT[c] = 0
    /\ \A t \in Of("T", c) : ~Pending(t)

C24_LoopEndsAndDeletesKeys ==
    /\ \A c \in Callables :
          (ftl[c] = "true") ~> (ftl[c] = "absent" /\ ~ftq[c].has)
    /\ [][\A c \in Callables :
            (ftl[c] = "true" /\ ftl'[c] # "true") =>
                /\ ftq[c].q = <<>>
                /\ ftl'[c] = "absent" /\ ftq'[c] = NoQueue
                /\ Running("T", c)' = {}]_vars

\* The resolve loop drained three thunks and ended: both keys are gone while
\* the callable is still registered.
C24_Witness ==
    /\ Len(started) = 3
    /\ \A t \in Of("T", "A") : ~Pending(t)
    /\ ftl["A"] = "absent" /\ ~ftq["A"].has
    /\ ftcT["A"] # 0

\* ------------------------------------------------------------------ C25
\* C25: when a timer of CreateSafeTimeout fires while its callable has no key
\* in FunctionsToQueue, nothing is pushed, no resolve loop starts and nothing
\* is called: only the timer itself is no longer armed.
C25_FiringWithoutQueueKey ==
    [][\A c \in Callables : \A t \in Of("T", c) :
          (Fires(t) /\ ~ftq[c].has) =>
              /\ ftq' = ftq /\ ftl' = ftl
              /\ started' = started /\ enq' = enq
              /\ timers' = [timers EXCEPT ![t].status = "fired"]]_vars

\* A timer registered during a flight fired after the loop had ended and
\* deleted the keys: it caused no invocation.
C25_Witness ==
    \E t, u \in Of("T", "A") :
        /\ t < u
        /\ timers[t].inv = "settled"
        /\ timers[u].status = "fired" /\ timers[u].inv = "none"
        /\ ~ftq["A"].has /\ ftl["A"] = "absent"
        /\ started = <<t>>

\* ------------------------------------------------------------------ C26
\* This step is the throwing or rejecting of invocation t.
Throws(t) == timers[t].inv = "running" /\ timers'[t].inv = "threw"

\* C26: whether the calls in flight settle or throw, every queued thunk of
\* CreateSafeTimeout is eventually called, and an interval whose callable
\* threw, and which is still registered, arms its next timer.
C26_ThrowDoesNotHalt ==
    /\ \A t \in 1..MaxTimersAll :
          (t \in Ids /\ timers[t].inv = "queued")
              ~> (t \in Ids /\ timers[t].inv # "queued")
    /\ [][\A c \in Callables : \A t \in Of("I", c) :
            (Throws(t) /\ ftcI[c] # 0 /\ Room) => Armed("I", c)' # {}]_vars

\* ------------------------------------------------------------------ C27
\* Timer u is armed by this step, as the next timer of an interval schedule
\* that was registered before.
ArmsNext(u) ==
    /\ u \in DOMAIN timers' /\ u \notin Ids
    /\ timers'[u].prim \in {"I", "IM"}
    /\ timers'[u].reg # u

Starts(u) == timers[u].inv # "running" /\ timers'[u].inv = "running"

\* C28: as long as a call of A made by the resolve loop stays in flight, no
\* other thunk of A is called; and whether or not the calls of A ever settle,
\* every armed timer of B fires or is cancelled, and every thunk of B that was
\* queued is called and settles.
C28_StallBlocksOnlyItsCallable ==
    /\ [][\A t \in Of("T", "A") :
            (timers[t].inv = "running" /\ timers'[t].inv = "running")
                => \A u \in Of("T", "A") : ~Starts(u)]_vars
    /\ \A t \in 1..MaxTimersTwo :
          /\ (t \in Ids /\ timers[t].callable = "B" /\ timers[t].status = "armed")
                ~> (t \in Ids /\ timers[t].status # "armed")
          /\ (t \in Ids /\ timers[t].callable = "B" /\ timers[t].inv = "queued")
                ~> (t \in Ids /\ timers[t].inv = "running")
          /\ (t \in Ids /\ timers[t].callable = "B" /\ timers[t].inv = "running")
                ~> (t \in Ids /\ timers[t].inv = "settled")

\* A call of A is in flight and a later thunk of A is queued behind it, while
\* a timer of B registered after both has fired and its call has settled.
C28_Witness ==
    \E a, u, b \in Ids :
        /\ a < u /\ u < b
        /\ timers[a].callable = "A" /\ timers[a].inv = "running"
        /\ timers[u].callable = "A" /\ timers[u].inv = "queued"
        /\ timers[b].callable = "B" /\ timers[b].inv = "settled"

\* ------------------------------------------------------------------ C29
\* The timers and invocations made through entry point prim are as they were.
TimersOfUnchanged(prim) ==
    \A t \in Ids : timers[t].prim = prim => timers'[t] = timers[t]

\* C29: a registration, re-registration or cancel made through
\* CreateSafeInterval changes no timer, no invocation, no Clear entry, no
\* queue and no loop flag of CreateSafeTimeout, and one made through
\* CreateSafeTimeout changes no timer, no invocation and no Clear entry of
\* CreateSafeInterval, the callable being the same.
C29_StoresIndependent ==
    [][/\ ((\E a \in Args : CreateSafeInterval("A", a))
              \/ \E r \in Ids : CancelInterval(r))
          => (TimersOfUnchanged("T") /\ UNCHANGED <<ftcT, ftq, ftl, started>>)
       /\ ((\E a \in Args : CreateSafeTimeout("A", a))
              \/ \E r \in Ids : CancelTimeout(r))
          => (TimersOfUnchanged("I") /\ UNCHANGED ftcI)]_vars

\* A is scheduled through both entry points: its timeout was registered
\* first, its interval was then registered and re-registered, and the timer
\* of the timeout and the timer of the latest interval are both armed.
C29_Witness ==
    \E x, y, z \in Ids :
        /\ x < y /\ y < z
        /\ timers[x].prim = "T" /\ timers[x].status = "armed" /\ ftcT["A"] = x
        /\ timers[y].prim = "I" /\ timers[y].status = "cleared" /\ ftcI["A"] = z
        /\ timers[z].prim = "I" /\ timers[z].status = "armed" /\ timers[z].reg = z

\* ------------------------------------------------------------------ C30
\* C30: when the function returned by any registration of callable c through
\* a singleton entry point is called, superseded or not, every armed timer of
\* the latest registration of c through that entry point is cleared.
C30_AnyCancelActsOnLatest ==
    [][\A p \in {"I", "T"} : \A c \in Callables : \A r \in Regs(p, c) :
          (CancelInterval(r) \/ CancelTimeout(r)) =>
              \A t \in Chain(LastReg(p, c)) :
                  timers[t].status = "armed" => timers'[t].status = "cleared"]_vars

\* ------------------------------------------------------------------ C31
\* C31: in CreateSafeTimeout a callable is a key of FunctionsToQueue exactly
\* when it is a key of FunctionsToLoop.
C31_QueueKeyIffLoopKey ==
    \A c \in Callables : ftq[c].has <=> ftl[c] # "absent"

\* The resolve loop ended and deleted both keys, and a registration made
\* after that set both again: the first call has settled, the second timer is
\* armed, the queue is empty and the flag is false.
C31_Witness ==
    \E t, u \in Of("T", "A") :
        /\ t < u
        /\ timers[t].inv = "settled"
        /\ timers[u].status = "armed" /\ timers[u].reg = u
        /\ Running("T", "A") = {}
        /\ ftq["A"].has /\ ftq["A"].q = <<>> /\ ftl["A"] = "false"

\* ------------------------------------------------------------------ C32
\* C32: when no call throws, the flag of a callable in FunctionsToLoop is true
\* exactly when one thunk of the callable, shifted off the queue by the
\* resolve loop, is in flight; with the flag false or the key absent no thunk
\* is in flight.
C32_FlagIffOneInFlight ==
    \A c \in Callables :
        /\ ftl[c] = "true" => Cardinality(Running("T", c)) = 1
        /\ ftl[c] # "true" => Running("T", c) = {}

\* The flag is true with one thunk in flight and another one queued behind
\* it, after an earlier thunk of the callable has settled.
C32_Witness ==
    \E s, t, u \in Of("T", "A") :
        /\ s < t /\ t < u
        /\ timers[s].inv = "settled"
        /\ timers[t].inv = "running"
        /\ timers[u].inv = "queued"
        /\ ftl["A"] = "true"
====
